---- MODULE Spec2Model ----
(***************************************************************************)
(* plugin-canvas: the web (wasm32) OsWindow backend, the OsWindowHandle     *)
(* wrapper and the Win32 hidden message window.                             *)
(*                                                                          *)
(* Spec   : one web canvas window, from OsWindow::open to the drop of its   *)
(*          handle, with the browser delivering native events and           *)
(*          animation frames and the host calling into the handle.          *)
(* SpecMW : the life of a MessageWindow, from new to its drop, with run     *)
(*          pumping the hidden window's queue while another thread may      *)
(*          clear the running flag; SpecMWFair adds that run keeps running. *)
(* SpecHost : the host calling the OsWindowInterface methods of an open     *)
(*          window, from outside and from inside the event callback.        *)
(* SpecClipboard : the clipboard of PluginCanvasPlatform.                   *)
(***************************************************************************)
EXTENDS Integers, Sequences, FiniteSets, TLC

VARIABLES
    phase,        \* "init" | "open" | "failed" | "dropped": life of the OsWindowHandle
    strong,       \* Rc strong count of the OsWindowInner allocation
    closures,     \* inner.closures: "unset" | "some" | "taken"
    listeners,    \* the browser's listener table: sequence of [target, name, closure]
    removed,      \* the remove_event_listener calls issued so far, in order
    tornDown,     \* TRUE once Drop for OsWindowInner has run
    rafPending,   \* number of pending request_animation_frame requests
    canvasSize,   \* backing size of the canvas element, <<width, height>>
    osScale,      \* window.devicePixelRatio
    owner,        \* thread recorded by ThreadBound::new (0: no ThreadBound yet)
    nativeCount,  \* native events the browser has dispatched since open
    cur,          \* observer: the most recent operation and what it did
    cursor,       \* the "cursor" property of the canvas element's style
    focused,      \* TRUE when the canvas element has the input focus
    mwPc,         \* MessageWindow::run: "idle" | "check" | "get" | "dispatch" | "done" | "panicked"
    running,      \* the AtomicBool handed to run
    hiddenQueue,  \* message queue of the hidden window
    mainQueue,    \* messages posted to the main window, in order
    curMsg,       \* msg: the message the last GetMessageW stored
    postedCount,  \* messages posted to the hidden window so far
    cleared,      \* observer: the running flag has been cleared
    getsAfterClear,      \* observer: GetMessageW returns since the flag was cleared
    dispatchedAfterClear, \* observer: messages dispatched since the flag was cleared
    mwState,      \* the MessageWindow: "none" | "created" | "failed" | "newPanicked" | "dropped" | "dropPanicked"
    windowClass,  \* TRUE while the window class registered by new is registered
    hwnd,         \* the hidden window: "none" | "alive" | "destroyed"
    mwCalls,      \* observer: the native calls of the last new or drop, with their outcomes
    lastProc,     \* observer: the last call of wnd_proc and what it did
    clipboard,    \* PluginCanvasPlatform::clipboard: the Option<String>
    lastDefaultSet, \* observer: the text of the last set_clipboard_text on DefaultClipboard
    clipOps,      \* clipboard operations made so far
    clipCur       \* observer: the last clipboard operation and its result

webVars == <<phase, strong, closures, listeners, removed, tornDown, rafPending, canvasSize, osScale, owner, nativeCount, cur, cursor, focused>>
mwVars == <<mwPc, running, hiddenQueue, mainQueue, curMsg, postedCount, cleared, getsAfterClear, dispatchedAfterClear, mwState, windowClass, hwnd, mwCalls, lastProc>>
clipVars == <<clipboard, lastDefaultSet, clipOps, clipCur>>
vars == <<webVars, mwVars, clipVars>>

----------------------------------------------------------------------------
\* Bounds of the model.

\* Threads of the host process are 1..NumThreads.
NumThreads == 2
\* Native events the browser dispatches in one run.
MaxNative == 2
\* Messages the hidden window's queue holds at once.
MaxQueue == 2
\* Messages posted to the hidden window in one run.
MaxPosted == 3
\* Clipboard operations in one run.
MaxClipboardOps == 4

Threads == 1..NumThreads

----------------------------------------------------------------------------
\* Values.

NoOp == [op |-> "none"]

Resp(tag, dropOp) == [tag |-> tag, op |-> dropOp]
DropOperations == {"None", "Copy", "Move", "Link"}
Handled == Resp("Handled", "-")
Ignored == Resp("Ignored", "-")
DropAccepted(dropOp) == Resp("DropAccepted", dropOp)
\* What the event callback may answer to a drag event.
Responses == {Handled, Ignored} \cup {DropAccepted(o) : o \in DropOperations}

\* web_sys::WheelEvent::DOM_DELTA_PIXEL; the other delta modes of a WheelEvent
\* are DOM_DELTA_LINE (1) and DOM_DELTA_PAGE (2).
DOM_DELTA_PIXEL == 0
DeltaModes == {DOM_DELTA_PIXEL, 1, 2}

\* canvas.getBoundingClientRect(): left and top in tenths of a CSS pixel.
CanvasRect == [left10 |-> 25, top10 |-> -15]

\* f64 as i32 on a value given in tenths: truncation toward zero.
AsI32(tenths) == IF tenths >= 0 THEN tenths \div 10 ELSE -((-tenths) \div 10)

\* PhysicalPosition::to_logical(scale): each coordinate divided by the scale,
\* kept as the fraction <<numerator, denominator>>.
ToLogical(p, scale) == [x |-> <<p.x, scale>>, y |-> <<p.y, scale>>]

\* LogicalSize::to_physical(scale): each dimension multiplied by the scale.
ToPhysical(size, scale) == <<size[1] * scale, size[2] * scale>>

\* Size of a canvas element nobody has sized yet (the HTML default).
DefaultCanvasSize == <<300, 150>>

----------------------------------------------------------------------------
\* Native events of the browser.

\* KeyboardEvent.key values: the text, its length in UTF-8 bytes (str::len) and
\* whether it is ASCII (str::is_ascii).  "U+00E9" stands for the one-character
\* string e-acute, two bytes long.
Key(text, len, ascii) == [text |-> text, len |-> len, ascii |-> ascii]
Keys == {Key("Backspace", 9, TRUE), Key("Enter", 5, TRUE), Key("Delete", 6, TRUE), Key("ArrowUp", 7, TRUE), Key("ArrowDown", 9, TRUE), Key("ArrowLeft", 9, TRUE), Key("ArrowRight", 10, TRUE), Key("a", 1, TRUE), Key("Shift", 5, TRUE), Key("Tab", 3, TRUE), Key("U+00E9", 2, FALSE)}
NoKey == Key("-", 0, TRUE)

ModifierNames == {"Alt", "Control", "Meta", "Shift"}
\* Modifier states the events of this model carry.
ModSets == {{}} \cup {{m} : m \in ModifierNames} \cup {ModifierNames}

\* PointerEvent.button: -1 (no button changed), 0..2, and the back and forward buttons 3 and 4.
Buttons == {-1, 0, 1, 2, 3, 4}
Points == {<<7, 9>>, <<12, 5>>}
\* DataTransfer.files: absent (null), or the list of its files.
FileList(present, items) == [present |-> present, items |-> items]
NoFiles == FileList(FALSE, <<>>)

\* A native event: every web_sys accessor the listeners read.
NativeEvent(name, onCanvas, mods, key, repeat, button, pt, mode, delta, hasDT, files, effect) ==
    [name |-> name, onCanvas |-> onCanvas,
     alt |-> "Alt" \in mods, ctrl |-> "Control" \in mods, meta |-> "Meta" \in mods, shift |-> "Shift" \in mods,
     key |-> key, repeat |-> repeat, button |-> button, x |-> pt[1], y |-> pt[2],
     deltaMode |-> mode, deltaX |-> delta[1], deltaY |-> delta[2],
     hasDT |-> hasDT, files |-> files, dropEffect |-> effect]

KeyboardEvent(name, mods, key, repeat) == NativeEvent(name, TRUE, mods, key, repeat, 0, <<0, 0>>, 0, <<0, 0>>, FALSE, NoFiles, "absent")
PointerEvent(name, onCanvas, mods, button, pt) == NativeEvent(name, onCanvas, mods, NoKey, FALSE, button, pt, 0, <<0, 0>>, FALSE, NoFiles, "absent")
WheelEvent(mods, pt, mode, delta) == NativeEvent("wheel", TRUE, mods, NoKey, FALSE, 0, pt, mode, delta, FALSE, NoFiles, "absent")
DragEvent(name, pt, hasDT, files, effect) == NativeEvent(name, TRUE, {}, NoKey, FALSE, 0, pt, 0, <<0, 0>>, hasDT, files, effect)

KeyA == Key("a", 1, TRUE)
KeyShift == Key("Shift", 5, TRUE)

\* A stimulus: a native event and the answers of the event callback to the
\* translated events of the listeners the browser calls for it, in call order.
Stim(ev, r) == [ev |-> ev, rs |-> <<r, Ignored>>]
Stim2(ev, r1, r2) == [ev |-> ev, rs |-> <<r1, r2>>]

KeyStimuli(name) ==
    {Stim(KeyboardEvent(name, {}, k, FALSE), r) : k \in Keys, r \in {Handled, Ignored}}
    \cup {Stim(KeyboardEvent(name, m, KeyA, TRUE), DropAccepted("Copy")) : m \in ModSets}
    \cup {Stim(KeyboardEvent(name, {"Shift"}, KeyShift, FALSE), Handled)}
ButtonStimuli(name) ==
    {Stim(PointerEvent(name, TRUE, {}, b, <<7, 9>>), r) : b \in Buttons, r \in {Handled, Ignored}}
    \cup {Stim(PointerEvent(name, TRUE, m, 1, <<12, 5>>), DropAccepted("Copy")) : m \in ModSets}
    \cup {Stim(PointerEvent(name, FALSE, {}, 2, <<12, 5>>), Handled)}
MotionStimuli(name) ==
    {Stim(PointerEvent(name, TRUE, {}, 0, p), r) : p \in Points, r \in {Handled, Ignored}}
    \cup {Stim(PointerEvent(name, TRUE, {"Meta"}, 0, <<7, 9>>), DropAccepted("Copy")),
          Stim(PointerEvent(name, FALSE, {}, 0, <<12, 5>>), Ignored)}
WheelStimuli ==
    {Stim(WheelEvent({}, <<7, 9>>, mode, d), Ignored) : mode \in DeltaModes, d \in {<<0, 3>>, <<-2, 1>>}}
    \cup {Stim(WheelEvent({"Control"}, <<12, 5>>, DOM_DELTA_PIXEL, <<0, 3>>), Handled)}
DragSamples(name) ==
    {DragEvent(name, <<7, 9>>, FALSE, NoFiles, "absent"),
     DragEvent(name, <<7, 9>>, TRUE, NoFiles, "none"),
     DragEvent(name, <<12, 5>>, TRUE, FileList(TRUE, <<>>), "move"),
     DragEvent(name, <<12, 5>>, TRUE, FileList(TRUE, <<"f1">>), "link"),
     DragEvent(name, <<7, 9>>, TRUE, FileList(TRUE, <<"f1", "f2">>), "none")}
DragStimuli ==
    {Stim(ev, r) : ev \in DragSamples("dragenter"), r \in Responses}
    \cup {Stim(ev, Ignored) : ev \in DragSamples("drag")}
    \cup {Stim(DragEvent("drag", <<12, 5>>, TRUE, FileList(TRUE, <<"f1">>), "link"), r) : r \in Responses}
    \cup {Stim2(ev, r1, r2) : ev \in {DragEvent("dragleave", <<7, 9>>, FALSE, NoFiles, "absent"), DragEvent("dragleave", <<12, 5>>, TRUE, FileList(TRUE, <<"f1">>), "link")},
                             r1 \in {Handled, Ignored, DropAccepted("Copy")}, r2 \in {Handled, Ignored, DropAccepted("Move")}}
    \cup {Stim(DragEvent(name, <<7, 9>>, TRUE, FileList(TRUE, <<"f1", "f2">>), "none"), Handled) : name \in {"dragover", "dragend", "drop"}}

\* Everything the browser dispatches at the page in this model.
Stimuli ==
    KeyStimuli("keydown") \cup KeyStimuli("keyup")
    \cup ButtonStimuli("pointerdown") \cup ButtonStimuli("pointerup")
    \cup MotionStimuli("pointerleave") \cup MotionStimuli("pointermove")
    \cup {Stim(PointerEvent("contextmenu", TRUE, {}, 2, <<7, 9>>), Ignored)}
    \cup WheelStimuli \cup DragStimuli

----------------------------------------------------------------------------
\* Translation of native events (OsWindow's helpers and macros).

Call(event, response) == [event |-> event, response |-> response]
\* The response to a KeyboardModifiers or Draw event is discarded by the code.
Discarded == Resp("discarded", "-")

\* OsWindowInner::send_event: the callback is invoked, synchronously, with the
\* event; sent is the record of the invocations of the listener so far.
SendEvent(sent, event, response) == Append(sent, Call(event, response))

\* What one listener invocation did: the callback invocations it made, whether
\* it called preventDefault, and the drop effect it set ("unset": none).
Outcome(sent, prevent, effect) == [sent |-> sent, prevent |-> prevent, effect |-> effect]

\* Modifiers with the meta flag left out.
ModifiersWithoutMeta(ev) ==
    (IF ev.alt THEN {"Alt"} ELSE {})
    \cup (IF ev.ctrl THEN {"Control"} ELSE {})
    \cup (IF ev.shift THEN {"Shift"} ELSE {})

Modifiers(ev) ==
    (IF ev.alt THEN {"Alt"} ELSE {})
    \cup (IF ev.ctrl THEN {"Control"} ELSE {})
    \cup (IF ev.meta THEN {"Meta"} ELSE {})
    \cup (IF ev.shift THEN {"Shift"} ELSE {})

\* update_modifiers!
UpdateModifiers(ev) == SendEvent(<<>>, [kind |-> "KeyboardModifiers", modifiers |-> Modifiers(ev)], Discarded)

\* event_position!
EventPosition(ev, scale) == ToLogical([x |-> ev.x - AsI32(CanvasRect.left10), y |-> ev.y - AsI32(CanvasRect.top10)], scale)

\* send_event! calling preventDefault on every answer but Ignored.
SendEventMacroUnlessIgnored(sent, event, response) == Outcome(SendEvent(sent, event, response), response # Ignored, "unset")

\* send_event!
SendEventMacro(sent, event, response) == Outcome(SendEvent(sent, event, response), response = Handled, "unset")

\* The drop effects with Move advertised as "copy".
DropEffectNameMoveAsCopy(dropOp) ==
    CASE dropOp = "None" -> "none"
      [] dropOp = "Copy" -> "copy"
      [] dropOp = "Move" -> "copy"
      [] dropOp = "Link" -> "link"

DropEffectName(dropOp) ==
    CASE dropOp = "None" -> "none"
      [] dropOp = "Copy" -> "copy"
      [] dropOp = "Move" -> "move"
      [] dropOp = "Link" -> "link"

\* send_drag_event!
SendDragEventMacro(ev, event, response) ==
    CASE response.tag = "Handled" -> Outcome(SendEvent(<<>>, event, response), TRUE, "unset")
      [] response.tag = "Ignored" -> Outcome(SendEvent(<<>>, event, response), FALSE, "unset")
      [] response.tag = "DropAccepted" -> Outcome(SendEvent(<<>>, event, response), FALSE, IF ev.hasDT THEN DropEffectName(response.op) ELSE "unset")

NoCode == [some |-> FALSE, code |-> "-", text |-> "-"]
SomeCode(code, text) == [some |-> TRUE, code |-> code, text |-> text]

\* convert_key with the catch-all arm reached by Delete as well.
convert_key_without_delete(key) ==
    CASE key.text = "Backspace" -> SomeCode("Backspace", key.text)
      [] key.text = "Enter" -> SomeCode("Enter", key.text)
      [] key.text = "ArrowUp" -> SomeCode("ArrowUp", key.text)
      [] key.text = "ArrowDown" -> SomeCode("ArrowDown", key.text)
      [] key.text = "ArrowLeft" -> SomeCode("ArrowLeft", key.text)
      [] key.text = "ArrowRight" -> SomeCode("ArrowRight", key.text)
      [] OTHER -> IF key.len # 1 /\ key.ascii THEN NoCode ELSE SomeCode("Unidentified", key.text)

\* OsWindow::convert_key
convert_key(key) ==
    CASE key.text = "Backspace" -> SomeCode("Backspace", key.text)
      [] key.text = "Enter" -> SomeCode("Enter", key.text)
      [] key.text = "Delete" -> SomeCode("Delete", key.text)
      [] key.text = "ArrowUp" -> SomeCode("ArrowUp", key.text)
      [] key.text = "ArrowDown" -> SomeCode("ArrowDown", key.text)
      [] key.text = "ArrowLeft" -> SomeCode("ArrowLeft", key.text)
      [] key.text = "ArrowRight" -> SomeCode("ArrowRight", key.text)
      [] OTHER -> IF key.len # 1 /\ key.ascii THEN NoCode ELSE SomeCode("Unidentified", key.text)

\* convert_button with every unlisted code taken for the middle button.
convert_button_other_as_middle(button) ==
    CASE button = 0 -> "Left"
      [] button = 1 -> "Middle"
      [] button = 2 -> "Right"
      [] OTHER -> "Middle"

\* convert_button with the codes of Middle and Right exchanged.
convert_button_swapped(button) ==
    CASE button = 0 -> "Left"
      [] button = 1 -> "Right"
      [] button = 2 -> "Middle"
      [] OTHER -> "Left"

\* OsWindow::convert_button
convert_button(button) ==
    CASE button = 0 -> "Left"
      [] button = 1 -> "Middle"
      [] button = 2 -> "Right"
      [] OTHER -> "Left"

NoData == [kind |-> "None", files |-> <<>>]

\* FileList.length and FileList.item(i): the i-th file counted from 0, or
\* null ("-") past the end of the list.
FileListLength(files) == Len(files.items)
FileListItem(files, i) == IF i >= 0 /\ i < Len(files.items) THEN files.items[i + 1] ELSE "-"

\* (from..file_list.length()).filter_map(|i| file_list.item(i)).collect()
RECURSIVE CollectFiles(_, _)
CollectFiles(files, from) ==
    IF from >= FileListLength(files) THEN <<>>
    ELSE (IF FileListItem(files, from) = "-" THEN <<>> ELSE <<FileListItem(files, from)>>) \o CollectFiles(files, from + 1)

\* drop_date without the test for an empty file list.
drop_date_without_empty_test(ev) ==
    IF ev.hasDT /\ ev.files.present
    THEN [kind |-> "Files", files |-> CollectFiles(ev.files, 0)]
    ELSE NoData

\* OsWindow::drop_date
drop_date(ev) ==
    IF ev.hasDT /\ ev.files.present
    THEN IF FileListLength(ev.files) = 0 THEN NoData ELSE [kind |-> "Files", files |-> CollectFiles(ev.files, 0)]
    ELSE NoData

\* The delta of a wheel event with DOM_DELTA_PAGE (2) taken for pixels too.
ScrollDeltaPageAsPixel(ev) ==
    IF ev.deltaMode = DOM_DELTA_PIXEL \/ ev.deltaMode = 2
    THEN [kind |-> "PixelDelta", x |-> ev.deltaX, y |-> ev.deltaY]
    ELSE [kind |-> "LineDelta", x |-> ev.deltaX, y |-> ev.deltaY]

\* on_wheel: let delta = if web_event.delta_mode() == DOM_DELTA_PIXEL ...
ScrollDelta(ev) ==
    IF ev.deltaMode = DOM_DELTA_PIXEL
    THEN [kind |-> "PixelDelta", x |-> ev.deltaX, y |-> ev.deltaY]
    ELSE [kind |-> "LineDelta", x |-> ev.deltaX, y |-> ev.deltaY]

\* The closures of OsWindow::open, by the Closures field that holds each.
on_keydown(ev, response) ==
    LET k == convert_key(ev.key)
    IN  IF k.some
        THEN SendEventMacro(UpdateModifiers(ev), [kind |-> "KeyDown", key_code |-> k.code, text |-> k.text, repeat |-> ev.repeat], response)
        ELSE Outcome(UpdateModifiers(ev), FALSE, "unset")

on_keyup(ev, response) ==
    LET k == convert_key(ev.key)
    IN  IF k.some
        THEN SendEventMacro(UpdateModifiers(ev), [kind |-> "KeyUp", key_code |-> k.code, text |-> k.text], response)
        ELSE Outcome(UpdateModifiers(ev), FALSE, "unset")

on_pointerdown(ev, response, scale) == SendEventMacro(UpdateModifiers(ev), [kind |-> "MouseButtonDown", button |-> convert_button(ev.button), position |-> EventPosition(ev, scale)], response)

on_pointerup(ev, response, scale) == SendEventMacro(UpdateModifiers(ev), [kind |-> "MouseButtonUp", button |-> convert_button(ev.button), position |-> EventPosition(ev, scale)], response)

on_pointerleave(ev, response) == SendEventMacro(UpdateModifiers(ev), [kind |-> "MouseExited"], response)

on_pointermove(ev, response, scale) == SendEventMacro(UpdateModifiers(ev), [kind |-> "MouseMoved", position |-> EventPosition(ev, scale)], response)

on_contextmenu == Outcome(<<>>, TRUE, "unset")

on_wheel(ev, response, scale) == SendEventMacro(UpdateModifiers(ev), [kind |-> "MouseWheel", position |-> EventPosition(ev, scale), delta |-> ScrollDelta(ev)], response)

on_dragenter(ev, response, scale) == SendDragEventMacro(ev, [kind |-> "DragEntered", position |-> EventPosition(ev, scale), data |-> drop_date(ev)], response)

on_dragleave(ev, response) == SendDragEventMacro(ev, [kind |-> "DragExited"], response)

on_dragover(ev, response, scale) == SendDragEventMacro(ev, [kind |-> "DragMoved", position |-> EventPosition(ev, scale), data |-> drop_date(ev)], response)

on_dragend(ev, response, scale) == SendDragEventMacro(ev, [kind |-> "DragDropped", position |-> EventPosition(ev, scale), data |-> drop_date(ev)], response)

\* The browser calling one registered closure with a native event.
Listener(closure, ev, response, scale) ==
    CASE closure = "on_keydown" -> on_keydown(ev, response)
      [] closure = "on_keyup" -> on_keyup(ev, response)
      [] closure = "on_pointerdown" -> on_pointerdown(ev, response, scale)
      [] closure = "on_pointerup" -> on_pointerup(ev, response, scale)
      [] closure = "on_pointerleave" -> on_pointerleave(ev, response)
      [] closure = "on_pointermove" -> on_pointermove(ev, response, scale)
      [] closure = "on_contextmenu" -> on_contextmenu
      [] closure = "on_wheel" -> on_wheel(ev, response, scale)
      [] closure = "on_dragenter" -> on_dragenter(ev, response, scale)
      [] closure = "on_dragleave" -> on_dragleave(ev, response)
      [] closure = "on_dragover" -> on_dragover(ev, response, scale)
      [] closure = "on_dragend" -> on_dragend(ev, response, scale)

----------------------------------------------------------------------------
\* OsWindow::open and the life of the backend.

Reg(target, name, closure) == [target |-> target, name |-> name, closure |-> closure]

\* The add_event_listener_canvas / add_event_listener_window calls of open, in
\* the order the fields of Closures are evaluated.
Registrations ==
    << Reg("canvas", "keydown", "on_keydown"),
       Reg("canvas", "keyup", "on_keyup"),
       Reg("canvas", "pointerdown", "on_pointerdown"),
       Reg("window", "pointerup", "on_pointerup"),
       Reg("canvas", "pointerleave", "on_pointerleave"),
       Reg("window", "pointermove", "on_pointermove"),
       Reg("canvas", "contextmenu", "on_contextmenu"),
       Reg("canvas", "wheel", "on_wheel"),
       Reg("window", "dragenter", "on_dragenter"),
       Reg("window", "dragleave", "on_dragleave"),
       Reg("window", "drag", "on_dragover"),
       Reg("window", "dragleave", "on_dragend") >>

\* The closures that capture a clone of the Rc (let inner = inner.clone()):
\* every listener but on_contextmenu, and on_animation.
CapturingClosures == {"on_keydown", "on_keyup", "on_pointerdown", "on_pointerup", "on_pointerleave", "on_pointermove", "on_wheel", "on_dragenter", "on_dragleave", "on_dragover", "on_dragend", "on_animation"}

\* The remove_event_listener_canvas / remove_event_listener_window calls of
\* Drop for OsWindowInner, in order.
Removals ==
    << Reg("canvas", "keydown", "on_keydown"),
       Reg("canvas", "keyup", "on_keyup"),
       Reg("canvas", "pointerdown", "on_pointerdown"),
       Reg("window", "pointerup", "on_pointerup"),
       Reg("canvas", "pointerleave", "on_pointerleave"),
       Reg("window", "pointermove", "on_pointermove"),
       Reg("window", "contextmenu", "on_contextmenu"),
       Reg("canvas", "wheel", "on_wheel"),
       Reg("canvas", "dragenter", "on_dragenter"),
       Reg("canvas", "dragleave", "on_dragleave"),
       Reg("canvas", "dragover", "on_dragover"),
       Reg("canvas", "dragend", "on_dragend") >>

\* EventTarget.addEventListener: appends the listener.
add_event_listener(table, reg) == Append(table, reg)

\* EventTarget.removeEventListener: removes the listener registered with the
\* same target, event name and callback; anything else is a no-op.
remove_event_listener(table, reg) == SelectSeq(table, LAMBDA l : l # reg)

RECURSIVE AddAll(_, _)
AddAll(table, regs) == IF regs = <<>> THEN table ELSE AddAll(add_event_listener(table, Head(regs)), Tail(regs))

RECURSIVE RemoveAll(_, _)
RemoveAll(table, regs) == IF regs = <<>> THEN table ELSE RemoveAll(remove_event_listener(table, Head(regs)), Tail(regs))

\* Drop for OsWindowInner: what is left of the listener table.
DropInner(table) == RemoveAll(table, Removals)

HandleKinds == {"Web", "Win32", "Xlib", "AppKit"}
\* document.query_selector: it throws, finds nothing, finds an element that is
\* not a canvas, or finds the canvas.
QueryOutcomes == {"error", "none", "notCanvas", "canvas"}
OpenArgs(kind, hasWindow, hasDocument, query, attrs) == [kind |-> kind, hasWindow |-> hasWindow, hasDocument |-> hasDocument, query |-> query, attrs |-> attrs]

\* The checks of open without the cast of the element to HtmlCanvasElement.
OpenCheckWithoutCast(args) ==
    IF args.kind # "Web" THEN "Not a web window"
    ELSE IF ~args.hasWindow THEN "No window found"
    ELSE IF ~args.hasDocument THEN "No document found"
    ELSE IF args.query = "error" THEN "Canvas search failed"
    ELSE IF args.query = "none" THEN "Canvas ID not found"
    ELSE "Ok"

\* The checks open makes before it builds anything: the error it returns, or "Ok".
OpenCheck(args) ==
    IF args.kind # "Web" THEN "Not a web window"
    ELSE IF ~args.hasWindow THEN "No window found"
    ELSE IF ~args.hasDocument THEN "No document found"
    ELSE IF args.query = "error" THEN "Canvas search failed"
    ELSE IF args.query = "none" THEN "Canvas ID not found"
    ELSE IF args.query = "notCanvas" THEN "Canvas could not be casted to HtmlCanvasElement"
    ELSE "Ok"

\* WindowAttributes of this model: the logical size and the scale asked for.
Attributes == {[size |-> <<200, 150>>, scale |-> 2]}
\* Sizes the host passes to resized.
LogicalSizes == {<<400, 300>>}
\* Values of window.devicePixelRatio.
Scales == {1, 2}

Draw == Call([kind |-> "Draw"], Discarded)

\* The first size of the canvas without the platform scale.
InitialSizeWithoutPlatformScale(attrs, scale) == ToPhysical(attrs.size, attrs.scale)

\* open: window_attributes.size.to_physical(window_attributes.scale * inner.os_scale())
InitialSize(attrs, scale) == ToPhysical(attrs.size, attrs.scale * scale)

\* resized leaving the size in logical pixels.
ResizedSizeUnscaled(size, scale) == size

\* resized: size.to_physical(self.os_scale())
ResizedSize(size, scale) == ToPhysical(size, scale)

\* animation_frame that sends Draw and requests no frame.
animation_frame_without_request(pending) == [sent |-> <<Draw>>, pending |-> pending, trace |-> <<"send_event">>]

\* OsWindowInner::animation_frame: Draw is sent to the callback, then one
\* animation frame is requested; pending counts the requests not yet served.
animation_frame(pending) == [sent |-> <<Draw>>, pending |-> pending + 1, trace |-> <<"send_event", "request_animation_frame">>]

\* ThreadBound::new: the calling thread is recorded.
ThreadBoundNew(t) == t
\* ThreadBound::as_ref: the value, on the recorded thread only.
ThreadBoundAsRef(tag, t) == IF t = tag THEN "ok" ELSE "WrongThread"
\* A deref that hands out the OsWindow on any thread.
DerefUnchecked(t) == "ok"
\* Deref for OsWindowHandle (and window_handle, display_handle): os_window.as_ref().
Deref(t) == ThreadBoundAsRef(owner, t)

Open(t, args) ==
    /\ phase = "init"
    /\ IF OpenCheck(args) # "Ok"
       THEN /\ phase' = "failed"
            /\ cur' = [op |-> "open", args |-> args, result |-> OpenCheck(args), scale |-> osScale, sent |-> <<>>, canvasAtDraw |-> canvasSize]
            /\ UNCHANGED <<strong, closures, listeners, removed, tornDown, rafPending, canvasSize, owner>>
       ELSE /\ phase' = "open"
            /\ strong' = 1 + Cardinality(CapturingClosures)
            /\ closures' = "some"
            /\ listeners' = AddAll(listeners, Registrations)
            /\ canvasSize' = InitialSize(args.attrs, osScale)
            /\ rafPending' = animation_frame(rafPending).pending
            /\ owner' = ThreadBoundNew(t)
            /\ cur' = [op |-> "open", args |-> args, result |-> "Ok", scale |-> osScale, sent |-> animation_frame(rafPending).sent, canvasAtDraw |-> canvasSize']
            /\ UNCHANGED <<removed, tornDown>>
    /\ UNCHANGED <<osScale, nativeCount, cursor, focused, mwVars, clipVars>>

\* The host drops the OsWindowHandle: the Arc, the ThreadBound and the OsWindow
\* go, and with the OsWindow its reference to the OsWindowInner; Drop for
\* OsWindowInner runs when that was the last one.
DropHandle ==
    /\ phase = "open"
    /\ phase' = "dropped"
    /\ strong' = strong - 1
    /\ IF strong' = 0
       THEN /\ closures' = "taken"
            /\ removed' = removed \o Removals
            /\ listeners' = DropInner(listeners)
            /\ tornDown' = TRUE
       ELSE UNCHANGED <<closures, removed, listeners, tornDown>>
    /\ cur' = [op |-> "drop"]
    /\ UNCHANGED <<rafPending, canvasSize, osScale, owner, nativeCount, cursor, focused, mwVars, clipVars>>

\* The browser runs a requested animation frame: on_animation, which calls
\* OsWindowInner::animation_frame.  A closure that was dropped throws instead.
AnimationFrame ==
    /\ rafPending > 0
    /\ IF closures = "some"
       THEN /\ rafPending' = animation_frame(rafPending - 1).pending
            /\ cur' = [op |-> "frame", afterDrop |-> phase = "dropped", sent |-> animation_frame(rafPending - 1).sent, trace |-> animation_frame(rafPending - 1).trace, canvasAtDraw |-> canvasSize]
       ELSE /\ rafPending' = rafPending - 1
            /\ cur' = [op |-> "frame", afterDrop |-> phase = "dropped", sent |-> <<>>, trace |-> <<>>, canvasAtDraw |-> canvasSize]
    /\ UNCHANGED <<phase, strong, closures, listeners, removed, tornDown, canvasSize, osScale, owner, nativeCount, cursor, focused, mwVars, clipVars>>

\* The listeners the browser calls for a native event: those of the canvas
\* (when the event is dispatched at the canvas), then those of the window.
Matched(ev) ==
    SelectSeq(listeners, LAMBDA l : l.name = ev.name /\ l.target = "canvas" /\ ev.onCanvas)
    \o SelectSeq(listeners, LAMBDA l : l.name = ev.name /\ l.target = "window")

\* One listener invocation, observed.
Invocation(reg, ev, response) ==
    LET o == IF closures = "some" THEN Listener(reg.closure, ev, response, osScale) ELSE Outcome(<<>>, FALSE, "unset")
    IN  [closure |-> reg.closure, sent |-> o.sent, prevent |-> o.prevent, effect |-> o.effect]

RECURSIVE LastEffect(_, _)
LastEffect(invs, effect) == IF invs = <<>> THEN effect ELSE LastEffect(Tail(invs), IF Head(invs).effect = "unset" THEN effect ELSE Head(invs).effect)

\* The browser dispatches a native event: every matching listener runs, each
\* with the answer the callback gives to its event.
Native(ev, rs) ==
    /\ phase \in {"open", "dropped"}
    /\ nativeCount < MaxNative
    /\ nativeCount' = nativeCount + 1
    /\ LET m == Matched(ev)
           invs == [i \in 1..Len(m) |-> Invocation(m[i], ev, rs[i])]
       IN  cur' = [op |-> "native", native |-> ev, afterDrop |-> phase = "dropped", scale |-> osScale,
                   invocations |-> invs,
                   defaultPrevented |-> \E i \in 1..Len(m) : invs[i].prevent,
                   dropEffect |-> LastEffect(invs, ev.dropEffect)]
    /\ UNCHANGED <<phase, strong, closures, listeners, removed, tornDown, rafPending, canvasSize, osScale, owner, cursor, focused, mwVars, clipVars>>

\* The host reaches the OsWindow through the handle on thread t.
HostDeref(t) ==
    /\ phase = "open"
    /\ cur' = [op |-> "deref", thread |-> t, outcome |-> Deref(t)]
    /\ UNCHANGED <<phase, strong, closures, listeners, removed, tornDown, rafPending, canvasSize, osScale, owner, nativeCount, cursor, focused, mwVars, clipVars>>

\* OsWindow::resized, called through the handle on thread t.
Resized(t, size) ==
    /\ phase = "open"
    /\ Deref(t) = "ok"
    /\ canvasSize' = ResizedSize(size, osScale)
    /\ cur' = [op |-> "resized", thread |-> t, size |-> size, scale |-> osScale, before |-> canvasSize, sent |-> <<>>]
    /\ UNCHANGED <<phase, strong, closures, listeners, removed, tornDown, rafPending, osScale, owner, nativeCount, cursor, focused, mwVars, clipVars>>

\* The page moves to a display of another pixel density.
ScaleChange(s) ==
    /\ phase \in {"open", "dropped"}
    /\ s # osScale
    /\ osScale' = s
    /\ UNCHANGED <<phase, strong, closures, listeners, removed, tornDown, rafPending, canvasSize, owner, nativeCount, cur, cursor, focused, mwVars, clipVars>>

----------------------------------------------------------------------------
\* OsWindowInterface for OsWindow: what the host calls through the handle.

\* Option<CursorIcon>: None, or Some(icon), by the icon's CSS name.
NoCursor == "None"
InterfaceCall(name, size, icon, focus, position) == [name |-> name, size |-> size, icon |-> icon, focus |-> focus, position |-> position]
os_scale == InterfaceCall("os_scale", <<0, 0>>, NoCursor, FALSE, <<0, 0>>)
resized(size) == InterfaceCall("resized", size, NoCursor, FALSE, <<0, 0>>)
set_cursor(icon) == InterfaceCall("set_cursor", <<0, 0>>, icon, FALSE, <<0, 0>>)
set_input_focus(focus) == InterfaceCall("set_input_focus", <<0, 0>>, NoCursor, focus, <<0, 0>>)
warp_mouse(position) == InterfaceCall("warp_mouse", <<0, 0>>, NoCursor, FALSE, position)
poll_events == InterfaceCall("poll_events", <<0, 0>>, NoCursor, FALSE, <<0, 0>>)
\* The calls the host makes in this model.
InterfaceCalls == {os_scale, poll_events, warp_mouse(<<3, 4>>), set_cursor(NoCursor), set_cursor("pointer"), set_input_focus(TRUE), set_input_focus(FALSE)} \cup {resized(size) : size \in LogicalSizes}

\* The state of the page the interface methods act on.
Page(size, scale, style, focus) == [canvasSize |-> size, osScale |-> scale, cursor |-> style, focused |-> focus]
\* What one interface call does: the page after it, its return value and the
\* events it sends to the callback.
Effect(page, result, sent) == [page |-> page, result |-> result, sent |-> sent]

\* The interface with a resized that sends Draw to the callback itself.
OsWindowInterfaceResizedRedraws(call, page) ==
    CASE call.name = "os_scale" -> Effect(page, <<"scale", page.osScale>>, <<>>)
      [] call.name = "resized" -> Effect([page EXCEPT !.canvasSize = ResizedSize(call.size, page.osScale)], <<"unit">>, <<Draw>>)
      [] call.name = "set_cursor" -> Effect([page EXCEPT !.cursor = IF call.icon = NoCursor THEN "default" ELSE call.icon], <<"unit">>, <<>>)
      [] call.name = "set_input_focus" -> Effect([page EXCEPT !.focused = call.focus], <<"unit">>, <<>>)
      [] call.name = "warp_mouse" -> Effect(page, <<"unit">>, <<>>)
      [] call.name = "poll_events" -> Effect(page, <<"Ok">>, <<>>)

\* os_scale, resized, set_cursor, set_input_focus, warp_mouse, poll_events.
OsWindowInterface(call, page) ==
    CASE call.name = "os_scale" -> Effect(page, <<"scale", page.osScale>>, <<>>)
      [] call.name = "resized" -> Effect([page EXCEPT !.canvasSize = ResizedSize(call.size, page.osScale)], <<"unit">>, <<>>)
      [] call.name = "set_cursor" -> Effect([page EXCEPT !.cursor = IF call.icon = NoCursor THEN "default" ELSE call.icon], <<"unit">>, <<>>)
      [] call.name = "set_input_focus" -> Effect([page EXCEPT !.focused = call.focus], <<"unit">>, <<>>)
      [] call.name = "warp_mouse" -> Effect(page, <<"unit">>, <<>>)
      [] call.name = "poll_events" -> Effect(page, <<"Ok">>, <<>>)

\* The host calls an interface method through the handle on thread t, outside
\* of any callback invocation.
HostCall(t, call) ==
    /\ phase = "open"
    /\ Deref(t) = "ok"
    /\ LET e == OsWindowInterface(call, Page(canvasSize, osScale, cursor, focused))
       IN  /\ canvasSize' = e.page.canvasSize
           /\ cursor' = e.page.cursor
           /\ focused' = e.page.focused
           /\ cur' = [op |-> "call", call |-> call, result |-> e.result, sent |-> e.sent, maxActive |-> IF e.sent = <<>> THEN 0 ELSE 1]
    /\ UNCHANGED <<phase, strong, closures, listeners, removed, tornDown, rafPending, osScale, owner, nativeCount, mwVars, clipVars>>

\* The browser runs a requested animation frame of a live window, and the
\* event callback, while it handles Draw, calls an interface method: events
\* that call sends reach the callback while its invocation for Draw is active.
DrawCallbackCalls(call) ==
    /\ phase = "open"
    /\ rafPending > 0
    /\ closures = "some"
    /\ LET e == OsWindowInterface(call, Page(canvasSize, osScale, cursor, focused))
       IN  /\ canvasSize' = e.page.canvasSize
           /\ cursor' = e.page.cursor
           /\ focused' = e.page.focused
           /\ cur' = [op |-> "drawCallback", call |-> call, result |-> e.result, sent |-> animation_frame(rafPending - 1).sent \o e.sent, maxActive |-> IF e.sent = <<>> THEN 1 ELSE 2]
    /\ rafPending' = animation_frame(rafPending - 1).pending
    /\ UNCHANGED <<phase, strong, closures, listeners, removed, tornDown, osScale, owner, nativeCount, mwVars, clipVars>>

----------------------------------------------------------------------------
\* The Win32 hidden message window.

Msg(msg, wparam, lparam) == [msg |-> msg, wparam |-> wparam, lparam |-> lparam]
NoMsg == Msg("none", 0, 0)
\* Messages that reach the hidden window's queue in this model; WM_QUIT is the
\* message GetMessageW answers with 0.
HiddenMessages == {Msg("WM_CHAR", 97, 30), Msg("WM_KEYDOWN", 65, 30), Msg("WM_KEYUP", 65, 30), Msg("WM_SYSKEYDOWN", 18, 30), Msg("WM_PAINT", 0, 0), Msg("WM_QUIT", 0, 0)}

\* keyboard::virtual_key_to_keycode, kept symbolic.
virtual_key_to_keycode(vk) == <<"keycode", vk>>

\* wnd_proc that takes WM_KEYUP for itself without posting anything.
wnd_proc_swallowing_keyup(m) ==
    CASE m.msg = "WM_CHAR" -> [posted |-> <<Msg("WM_USER_CHAR", m.wparam, m.lparam)>>, result |-> "0", def |-> FALSE]
      [] m.msg = "WM_KEYDOWN" -> [posted |-> <<Msg("WM_USER_KEY_DOWN", virtual_key_to_keycode(m.wparam), m.lparam)>>, result |-> "0", def |-> FALSE]
      [] m.msg = "WM_KEYUP" -> [posted |-> <<>>, result |-> "0", def |-> FALSE]
      [] OTHER -> [posted |-> <<>>, result |-> "DefWindowProcW", def |-> TRUE]

\* wnd_proc: the messages it posts to the main window, and whether it leaves
\* the message to DefWindowProcW.
wnd_proc(m) ==
    CASE m.msg = "WM_CHAR" -> [posted |-> <<Msg("WM_USER_CHAR", m.wparam, m.lparam)>>, result |-> "0", def |-> FALSE]
      [] m.msg = "WM_KEYDOWN" -> [posted |-> <<Msg("WM_USER_KEY_DOWN", virtual_key_to_keycode(m.wparam), m.lparam)>>, result |-> "0", def |-> FALSE]
      [] m.msg = "WM_KEYUP" -> [posted |-> <<Msg("WM_USER_KEY_UP", virtual_key_to_keycode(m.wparam), 0)>>, result |-> "0", def |-> FALSE]
      [] OTHER -> [posted |-> <<>>, result |-> "DefWindowProcW", def |-> TRUE]

\* No call of wnd_proc yet.
NoProc == [msg |-> NoMsg, posted |-> <<>>, result |-> "-", def |-> FALSE]

NativeCall(name, ok) == [call |-> name, ok |-> ok]

\* MessageWindow::new, given whether RegisterClassW and CreateWindowExW
\* succeed: how it ends, what exists afterwards and the native calls it made.
MessageWindowNew(registerOk, createOk) ==
    IF ~registerOk
    THEN [end |-> "failed", class |-> FALSE, window |-> "none", calls |-> <<NativeCall("RegisterClassW", FALSE)>>]
    ELSE IF ~createOk
    THEN [end |-> "newPanicked", class |-> TRUE, window |-> "none", calls |-> <<NativeCall("RegisterClassW", TRUE), NativeCall("CreateWindowExW", FALSE)>>]
    ELSE [end |-> "created", class |-> TRUE, window |-> "alive", calls |-> <<NativeCall("RegisterClassW", TRUE), NativeCall("CreateWindowExW", TRUE), NativeCall("SetWindowLongPtrW", TRUE)>>]

\* The host calls MessageWindow::new(main_window_hwnd).
New(registerOk, createOk) ==
    /\ mwState = "none"
    /\ mwState' = MessageWindowNew(registerOk, createOk).end
    /\ windowClass' = MessageWindowNew(registerOk, createOk).class
    /\ hwnd' = MessageWindowNew(registerOk, createOk).window
    /\ mwCalls' = MessageWindowNew(registerOk, createOk).calls
    /\ UNCHANGED <<mwPc, running, hiddenQueue, mainQueue, curMsg, postedCount, cleared, getsAfterClear, dispatchedAfterClear, lastProc, webVars, clipVars>>

\* The host destroys the main window, and Windows with it the hidden child
\* window and its queue.
ParentDestroyed ==
    /\ mwState = "created"
    /\ hwnd = "alive"
    /\ hwnd' = "destroyed"
    /\ hiddenQueue' = <<>>
    /\ UNCHANGED <<mwPc, running, mainQueue, curMsg, postedCount, cleared, getsAfterClear, dispatchedAfterClear, mwState, windowClass, mwCalls, lastProc, webVars, clipVars>>

\* Drop that gives up the class unregistration when DestroyWindow failed.
MessageWindowDropStoppingAtDestroy(window, destroyOk, unregisterOk) ==
    LET destroyed == window = "alive" /\ destroyOk
        left == IF destroyed THEN "destroyed" ELSE window
        unregistered == left # "alive" /\ unregisterOk
    IN  IF ~destroyed
        THEN [end |-> "dropped", class |-> TRUE, window |-> left, calls |-> <<NativeCall("DestroyWindow", FALSE)>>]
        ELSE [end |-> IF unregistered THEN "dropped" ELSE "dropPanicked", class |-> ~unregistered, window |-> left,
              calls |-> <<NativeCall("DestroyWindow", TRUE), NativeCall("UnregisterClassW", unregistered)>>]

\* Drop for MessageWindow.  DestroyWindow succeeds on a window that exists,
\* unless Windows refuses (destroyOk); its result is discarded (.ok()).
\* UnregisterClassW fails while a window of the class exists, or when
\* Windows refuses (unregisterOk); its failure panics (.unwrap()).
MessageWindowDrop(window, destroyOk, unregisterOk) ==
    LET destroyed == window = "alive" /\ destroyOk
        left == IF destroyed THEN "destroyed" ELSE window
        unregistered == left # "alive" /\ unregisterOk
    IN  [end |-> IF unregistered THEN "dropped" ELSE "dropPanicked", class |-> ~unregistered, window |-> left,
         calls |-> <<NativeCall("DestroyWindow", destroyed), NativeCall("UnregisterClassW", unregistered)>>]

\* The MessageWindow is dropped; run borrows it, so that is before run was
\* called or after it has ended.
DropMessageWindow(destroyOk, unregisterOk) ==
    /\ mwState = "created"
    /\ mwPc \in {"idle", "done", "panicked"}
    /\ mwState' = MessageWindowDrop(hwnd, destroyOk, unregisterOk).end
    /\ windowClass' = MessageWindowDrop(hwnd, destroyOk, unregisterOk).class
    /\ hwnd' = MessageWindowDrop(hwnd, destroyOk, unregisterOk).window
    /\ mwCalls' = MessageWindowDrop(hwnd, destroyOk, unregisterOk).calls
    /\ UNCHANGED <<mwPc, running, hiddenQueue, mainQueue, curMsg, postedCount, cleared, getsAfterClear, dispatchedAfterClear, lastProc, webVars, clipVars>>

\* The host calls MessageWindow::run(running).
RunStart ==
    /\ mwState = "created"
    /\ mwPc = "idle"
    /\ mwPc' = "check"
    /\ UNCHANGED <<running, hiddenQueue, mainQueue, curMsg, postedCount, cleared, getsAfterClear, dispatchedAfterClear, mwState, windowClass, hwnd, mwCalls, lastProc, webVars, clipVars>>

\* A loop that does not look at the flag.
LoopTestIgnoringFlag(flag) == "get"

\* A loop that runs while the flag is false.
LoopTestInverted(flag) == IF flag THEN "done" ELSE "get"

\* while running.load(Ordering::Acquire): where run goes after the load.
LoopTest(flag) == IF flag THEN "get" ELSE "done"

RunCheck ==
    /\ mwPc = "check"
    /\ mwPc' = LoopTest(running)
    /\ UNCHANGED <<running, hiddenQueue, mainQueue, curMsg, postedCount, cleared, getsAfterClear, dispatchedAfterClear, mwState, windowClass, hwnd, mwCalls, lastProc, webVars, clipVars>>

\* The BOOL GetMessageW returns for a message it retrieved: 0 for WM_QUIT,
\* nonzero for any other message.  (-1 is its error return.)
GetMessageW(m) == IF m.msg = "WM_QUIT" THEN 0 ELSE 1

\* The match on the result with the shutdown sentinel handled like a message.
AfterGetDispatchingQuit(result) ==
    CASE result = -1 -> "panicked"
      [] OTHER -> "dispatch"

\* match GetMessageW(..) { BOOL(-1) => panic!(), BOOL(0) => return, _ => {} }:
\* where run goes after the call.
AfterGet(result) ==
    CASE result = -1 -> "panicked"
      [] result = 0 -> "done"
      [] OTHER -> "dispatch"

\* GetMessageW returns with the next message of the queue.
RunGet ==
    /\ mwPc = "get"
    /\ hwnd = "alive"
    /\ hiddenQueue # <<>>
    /\ curMsg' = Head(hiddenQueue)
    /\ hiddenQueue' = Tail(hiddenQueue)
    /\ mwPc' = AfterGet(GetMessageW(Head(hiddenQueue)))
    /\ getsAfterClear' = IF cleared THEN getsAfterClear + 1 ELSE getsAfterClear
    /\ UNCHANGED <<running, mainQueue, postedCount, cleared, dispatchedAfterClear, mwState, windowClass, hwnd, mwCalls, lastProc, webVars, clipVars>>

\* GetMessageW returns -1: run panics.
RunGetError ==
    /\ mwPc = "get"
    /\ mwPc' = AfterGet(-1)
    /\ getsAfterClear' = IF cleared THEN getsAfterClear + 1 ELSE getsAfterClear
    /\ UNCHANGED <<running, hiddenQueue, mainQueue, curMsg, postedCount, cleared, dispatchedAfterClear, mwState, windowClass, hwnd, mwCalls, lastProc, webVars, clipVars>>

\* TranslateMessage and DispatchMessageW, which calls wnd_proc with the
\* message; it calls nothing when the window of the message is gone.
RunDispatch ==
    /\ mwPc = "dispatch"
    /\ mainQueue' = IF hwnd = "alive" THEN mainQueue \o wnd_proc(curMsg).posted ELSE mainQueue
    /\ dispatchedAfterClear' = IF cleared THEN dispatchedAfterClear + 1 ELSE dispatchedAfterClear
    /\ mwPc' = "check"
    /\ lastProc' = IF hwnd = "alive" THEN [msg |-> curMsg, posted |-> wnd_proc(curMsg).posted, result |-> wnd_proc(curMsg).result, def |-> wnd_proc(curMsg).def] ELSE lastProc
    /\ UNCHANGED <<running, hiddenQueue, curMsg, postedCount, cleared, getsAfterClear, mwState, windowClass, hwnd, mwCalls, webVars, clipVars>>

\* Some thread clears the running flag: running.store(false).
ClearFlag ==
    /\ running
    /\ running' = FALSE
    /\ cleared' = TRUE
    /\ UNCHANGED <<mwPc, hiddenQueue, mainQueue, curMsg, postedCount, getsAfterClear, dispatchedAfterClear, mwState, windowClass, hwnd, mwCalls, lastProc, webVars, clipVars>>

\* Windows (or another thread) puts a message in the hidden window's queue.
PostHidden(m) ==
    /\ mwState = "created"
    /\ hwnd = "alive"
    /\ Len(hiddenQueue) < MaxQueue
    /\ postedCount < MaxPosted
    /\ hiddenQueue' = Append(hiddenQueue, m)
    /\ postedCount' = postedCount + 1
    /\ UNCHANGED <<mwPc, running, mainQueue, curMsg, cleared, getsAfterClear, dispatchedAfterClear, mwState, windowClass, hwnd, mwCalls, lastProc, webVars, clipVars>>

----------------------------------------------------------------------------
\* PluginCanvasPlatform (plugin-canvas-slint): the clipboard.

\* Option<String>: None, or Some(text).
NoText == [some |-> FALSE, text |-> ""]
SomeText(text) == [some |-> TRUE, text |-> text]

\* i_slint_core::platform::Clipboard, and the texts of this model.
Clipboards == {"DefaultClipboard", "SelectionClipboard"}
Texts == {"", "a", "b"}

\* set_clipboard_text that stores the text whatever the clipboard.
set_clipboard_text_any_clipboard(stored, text, which) == SomeText(text)

\* PluginCanvasPlatform::set_clipboard_text: the stored text after the call.
set_clipboard_text(stored, text, which) ==
    CASE which = "DefaultClipboard" -> SomeText(text)
      [] OTHER -> stored

\* PluginCanvasPlatform::clipboard_text: the value returned.
clipboard_text(stored, which) ==
    CASE which = "DefaultClipboard" -> stored
      [] OTHER -> NoText

SetClipboardText(text, which) ==
    /\ clipOps < MaxClipboardOps
    /\ clipOps' = clipOps + 1
    /\ clipboard' = set_clipboard_text(clipboard, text, which)
    /\ lastDefaultSet' = IF which = "DefaultClipboard" THEN SomeText(text) ELSE lastDefaultSet
    /\ clipCur' = [op |-> "set", which |-> which, text |-> text, result |-> NoText, before |-> clipboard]
    /\ UNCHANGED <<webVars, mwVars>>

ClipboardText(which) ==
    /\ clipOps < MaxClipboardOps
    /\ clipOps' = clipOps + 1
    /\ clipCur' = [op |-> "get", which |-> which, text |-> "", result |-> clipboard_text(clipboard, which), before |-> clipboard]
    /\ UNCHANGED <<clipboard, lastDefaultSet, webVars, mwVars>>

----------------------------------------------------------------------------
\* Specifications.

Init ==
    /\ phase = "init"
    /\ strong = 0
    /\ closures = "unset"
    /\ listeners = <<>>
    /\ removed = <<>>
    /\ tornDown = FALSE
    /\ rafPending = 0
    /\ canvasSize = DefaultCanvasSize
    /\ osScale \in Scales
    /\ owner = 0
    /\ nativeCount = 0
    /\ cur = NoOp
    /\ mwPc = "idle"
    /\ running = TRUE
    /\ hiddenQueue = <<>>
    /\ mainQueue = <<>>
    /\ curMsg = NoMsg
    /\ postedCount = 0
    /\ cleared = FALSE
    /\ getsAfterClear = 0
    /\ dispatchedAfterClear = 0
    /\ cursor = "auto"
    /\ focused = FALSE
    /\ mwState = "none"
    /\ windowClass = FALSE
    /\ hwnd = "none"
    /\ mwCalls = <<>>
    /\ lastProc = NoProc
    /\ clipboard = NoText
    /\ lastDefaultSet = NoText
    /\ clipOps = 0
    /\ clipCur = NoOp

Next ==
    \/ \E t \in Threads, kind \in HandleKinds, hasWindow \in BOOLEAN, hasDocument \in BOOLEAN, query \in QueryOutcomes, attrs \in Attributes : Open(t, OpenArgs(kind, hasWindow, hasDocument, query, attrs))
    \/ DropHandle
    \/ AnimationFrame
    \/ \E st \in Stimuli : Native(st.ev, st.rs)
    \/ \E t \in Threads : HostDeref(t)
    \/ \E t \in Threads, size \in LogicalSizes : Resized(t, size)
    \/ \E s \in Scales : ScaleChange(s)

Spec == Init /\ [][Next]_vars

\* The host opens a window and uses its interface, from outside the event
\* callback and from inside it.
NextHost ==
    \/ \E t \in Threads, kind \in HandleKinds, hasWindow \in BOOLEAN, hasDocument \in BOOLEAN, query \in QueryOutcomes, attrs \in Attributes : Open(t, OpenArgs(kind, hasWindow, hasDocument, query, attrs))
    \/ \E t \in Threads, call \in InterfaceCalls : HostCall(t, call)
    \/ \E call \in InterfaceCalls : DrawCallbackCalls(call)
    \/ \E s \in Scales : ScaleChange(s)

SpecHost == Init /\ [][NextHost]_vars

NextClipboard ==
    \/ \E text \in Texts, which \in Clipboards : SetClipboardText(text, which)
    \/ \E which \in Clipboards : ClipboardText(which)

SpecClipboard == Init /\ [][NextClipboard]_vars

NextMW ==
    \/ \E registerOk \in BOOLEAN, createOk \in BOOLEAN : New(registerOk, createOk)
    \/ ParentDestroyed
    \/ \E destroyOk \in BOOLEAN, unregisterOk \in BOOLEAN : DropMessageWindow(destroyOk, unregisterOk)
    \/ RunStart
    \/ RunCheck
    \/ RunGet
    \/ RunGetError
    \/ RunDispatch
    \/ ClearFlag
    \/ \E m \in HiddenMessages : PostHidden(m)

SpecMW == Init /\ [][NextMW]_vars

\* The thread inside run keeps executing: the flag test and the translate /
\* dispatch pair are taken when they are enabled.  Nothing makes GetMessageW
\* return, other threads clear the flag or post messages when they please.
SpecMWFair == SpecMW /\ WF_vars(RunCheck) /\ WF_vars(RunDispatch)

----------------------------------------------------------------------------
\* Vocabulary of the properties.

\* The callback invocations one listener invocation made for translated
\* events: all but the KeyboardModifiers event that precedes them.
Translated(inv) == SelectSeq(inv.sent, LAMBDA c : c.event.kind # "KeyboardModifiers")

\* The modifier state of a native event, flag by flag.
NativeMods(ev) == {m \in ModifierNames : \/ m = "Alt" /\ ev.alt
                                         \/ m = "Control" /\ ev.ctrl
                                         \/ m = "Meta" /\ ev.meta
                                         \/ m = "Shift" /\ ev.shift}

KeyListeners == {"on_keydown", "on_keyup"}
PointerListeners == {"on_pointerdown", "on_pointerup", "on_pointerleave", "on_pointermove", "on_wheel"}
DragListeners == {"on_dragenter", "on_dragleave", "on_dragover", "on_dragend"}

\* The kind of Event each closure of open translates its native event to.
KindOf(closure) ==
    CASE closure = "on_keydown" -> "KeyDown"
      [] closure = "on_keyup" -> "KeyUp"
      [] closure = "on_pointerdown" -> "MouseButtonDown"
      [] closure = "on_pointerup" -> "MouseButtonUp"
      [] closure = "on_pointerleave" -> "MouseExited"
      [] closure = "on_pointermove" -> "MouseMoved"
      [] closure = "on_wheel" -> "MouseWheel"
      [] closure = "on_dragenter" -> "DragEntered"
      [] closure = "on_dragleave" -> "DragExited"
      [] closure = "on_dragover" -> "DragMoved"
      [] closure = "on_dragend" -> "DragDropped"
      [] OTHER -> "-"

EnumeratedKeys == {"Backspace", "Enter", "Delete", "ArrowUp", "ArrowDown", "ArrowLeft", "ArrowRight"}
\* A key outside the enumerated names whose text is ASCII and not one byte long.
RejectedKey(key) == key.text \notin EnumeratedKeys /\ key.len # 1 /\ key.ascii

OpenArgsValid(args) == args.kind = "Web" /\ args.hasWindow /\ args.hasDocument /\ args.query = "canvas"

----------------------------------------------------------------------------
\* Properties.

\* C1: once the host has dropped the OsWindowHandle, Drop for OsWindowInner
\* (the backend teardown) has run.
C1_DropRunsTeardown == phase = "dropped" => tornDown

\* C2: after the OsWindowHandle has been dropped, no native event and no
\* animation frame leads to an invocation of the event callback.
C2_NoCallbackAfterDrop ==
    /\ (cur.op = "frame" /\ cur.afterDrop) => cur.sent = <<>>
    /\ (cur.op = "native" /\ cur.afterDrop) => \A i \in DOMAIN cur.invocations : cur.invocations[i].sent = <<>>

\* C3: after the drop of a window that registered N listeners, exactly N
\* removal calls were issued, the i-th for the target, event name and closure
\* of the i-th registration, and no listener of open is left registered.
C3_TeardownRemovesEveryListener ==
    phase = "dropped" =>
        /\ Len(removed) = Len(Registrations)
        /\ \A i \in 1..Len(Registrations) : i \in DOMAIN removed /\ removed[i] = Registrations[i]
        /\ listeners = <<>>

\* C4: an open whose parent handle is not a web handle, or that finds no
\* window, no document or no canvas element, returns an error and leaves
\* nothing behind: no listener, no animation frame request, the canvas size
\* untouched, the callback never invoked, no backend allocated.
C4_FailedOpenLeavesNothing ==
    /\ (cur.op = "open" /\ ~OpenArgsValid(cur.args)) => (phase = "failed" /\ cur.result # "Ok")
    /\ phase = "failed" =>
        /\ cur.op = "open" /\ cur.result # "Ok" /\ cur.sent = <<>>
        /\ listeners = <<>>
        /\ rafPending = 0
        /\ canvasSize = DefaultCanvasSize
        /\ strong = 0 /\ closures = "unset" /\ owner = 0
C4_Witness == phase = "failed" /\ cur.args.kind = "Web" /\ cur.args.hasWindow /\ cur.args.hasDocument /\ cur.args.query = "notCanvas" /\ cur.result = "Canvas could not be casted to HtmlCanvasElement"

\* C5: reaching the OsWindow through the handle on thread t succeeds exactly
\* when t is the thread that created the ThreadBound, and fails on any other
\* thread; any thread may hold the handle and try.
C5_DerefOnlyOnCreatingThread ==
    /\ cur.op = "deref" => (cur.outcome = "ok" <=> cur.thread = owner)
    /\ cur.op = "deref" => cur.outcome \in {"ok", "WrongThread"}
    /\ cur.op = "resized" => cur.thread = owner
C5_Witness == cur.op = "deref" /\ owner \in Threads /\ cur.thread # owner /\ cur.outcome = "WrongThread"

\* C6 as stated: no message is translated or dispatched after the running
\* flag was cleared.
C6_NothingDispatchedAfterClear == dispatchedAfterClear = 0

\* C6 as amended: after the running flag was cleared, at most one GetMessageW
\* call returns and at most one message is dispatched (the one run was getting
\* or had got when the flag was cleared), and run starts no further get.
C6_AtMostOneCycleAfterClear ==
    cleared =>
        /\ getsAfterClear <= 1
        /\ dispatchedAfterClear <= 1
        /\ mwPc = "get" => (getsAfterClear = 0 /\ dispatchedAfterClear = 0)
        /\ mwPc = "dispatch" => dispatchedAfterClear = 0
C6_Witness == cleared /\ mwPc = "done" /\ getsAfterClear = 1 /\ dispatchedAfterClear = 1 /\ curMsg.msg = "WM_KEYDOWN"

\* The callback invocations of a key or pointer listener are the modifiers of
\* its native event, then one event of the listener's kind.
ModifiersThenEvent(inv, ev) ==
    /\ Len(inv.sent) = 2
    /\ inv.sent[1].event = [kind |-> "KeyboardModifiers", modifiers |-> NativeMods(ev)]
    /\ inv.sent[2].event.kind = KindOf(inv.closure)

\* C7 as stated: every key and pointer listener invocation makes exactly two
\* callback invocations, KeyboardModifiers with the event's modifier state and
\* then the translated event, whatever the key.
C7_ModifiersThenEventForEveryKey ==
    cur.op = "native" =>
        \A i \in DOMAIN cur.invocations :
            cur.invocations[i].closure \in KeyListeners \cup PointerListeners => ModifiersThenEvent(cur.invocations[i], cur.native)

\* C7 as amended: the same, except that a key event whose key is outside the
\* enumerated names and is ASCII text not one byte long (Shift, say) makes one
\* callback invocation only, the KeyboardModifiers event.
C7_ModifiersThenEventUnlessRejectedKey ==
    cur.op = "native" =>
        \A i \in DOMAIN cur.invocations :
            LET inv == cur.invocations[i]
            IN  /\ (inv.closure \in PointerListeners \/ (inv.closure \in KeyListeners /\ ~RejectedKey(cur.native.key)))
                    => ModifiersThenEvent(inv, cur.native)
                /\ (inv.closure \in KeyListeners /\ RejectedKey(cur.native.key))
                    => inv.sent = <<Call([kind |-> "KeyboardModifiers", modifiers |-> NativeMods(cur.native)], Discarded)>>
C7_Witness ==
    /\ cur.op = "native" /\ cur.native.name = "keydown" /\ cur.native.key.text = "Shift" /\ cur.native.shift
    /\ Len(cur.invocations) = 1 /\ Len(cur.invocations[1].sent) = 1

\* The button a native pointer event names, as a MouseButton.
ButtonOf(ev) == IF ev.button = 1 THEN "Middle" ELSE IF ev.button = 2 THEN "Right" ELSE "Left"
\* The point of a native event relative to the canvas (whose rectangle starts
\* at 2.5, -1.5), in logical pixels at the scale of the dispatch.
PositionOf(ev, scale) == [x |-> <<ev.x - 2, scale>>, y |-> <<ev.y + 1, scale>>]

\* A listener invocation delivered exactly the one translated event of its
\* own native event, inside the invocation.
OneOwnEvent(inv, ev, scale) ==
    /\ Len(Translated(inv)) = 1
    /\ Translated(inv)[1].event.kind = KindOf(inv.closure)
    /\ inv.closure \in {"on_pointerdown", "on_pointerup"} =>
        /\ Translated(inv)[1].event.button = ButtonOf(ev)
        /\ Translated(inv)[1].event.position = PositionOf(ev, scale)

\* The listeners of open the browser calls for a native event, by the event
\* name and target open registers each closure with.
CalledFor(ev) ==
    CASE ev.name = "keydown" /\ ev.onCanvas -> <<"on_keydown">>
      [] ev.name = "keyup" /\ ev.onCanvas -> <<"on_keyup">>
      [] ev.name = "pointerdown" /\ ev.onCanvas -> <<"on_pointerdown">>
      [] ev.name = "pointerup" -> <<"on_pointerup">>
      [] ev.name = "pointerleave" /\ ev.onCanvas -> <<"on_pointerleave">>
      [] ev.name = "pointermove" -> <<"on_pointermove">>
      [] ev.name = "contextmenu" /\ ev.onCanvas -> <<"on_contextmenu">>
      [] ev.name = "wheel" /\ ev.onCanvas -> <<"on_wheel">>
      [] ev.name = "dragenter" -> <<"on_dragenter">>
      [] ev.name = "dragleave" -> <<"on_dragleave", "on_dragend">>
      [] ev.name = "drag" -> <<"on_dragover">>
      [] OTHER -> <<>>

EffectOf(dropOp) == IF dropOp = "Copy" THEN "copy" ELSE IF dropOp = "Move" THEN "move" ELSE IF dropOp = "Link" THEN "link" ELSE "none"

\* C10: a drag listener whose event the callback answers with
\* DropAccepted(op) sets the drop effect of the event's data transfer to the
\* value of op before it returns; one answered Handled or Ignored sets none,
\* so that the drop effect stays what it was.
C10_DropEffectFollowsDropAccepted ==
    cur.op = "native" =>
        /\ \A i \in DOMAIN cur.invocations :
            LET inv == cur.invocations[i]
            IN  inv.closure \in DragListeners =>
                    /\ Len(inv.sent) = 1
                    /\ (inv.sent[1].response.tag = "DropAccepted" /\ cur.native.hasDT) => inv.effect = EffectOf(inv.sent[1].response.op)
                    /\ (inv.sent[1].response.tag \in {"Handled", "Ignored"} \/ ~cur.native.hasDT) => inv.effect = "unset"
        /\ (\A i \in DOMAIN cur.invocations : cur.invocations[i].effect = "unset") => cur.dropEffect = cur.native.dropEffect
        /\ (Len(cur.invocations) = 1 /\ cur.invocations[1].effect # "unset") => cur.dropEffect = cur.invocations[1].effect
C10_Witness ==
    /\ cur.op = "native" /\ cur.native.name = "dragenter" /\ cur.native.hasDT /\ cur.native.dropEffect = "none"
    /\ Len(cur.native.files.items) = 2 /\ Len(cur.invocations) = 1
    /\ cur.invocations[1].sent[1].response = DropAccepted("Copy") /\ cur.dropEffect = "copy"

\* The listeners whose event carries a drag payload.
PayloadListeners == {"on_dragenter", "on_dragover", "on_dragend"}
\* A native event that has a data transfer with a file list of at least one file.
HasFiles(ev) == ev.hasDT /\ ev.files.present /\ ev.files.items # <<>>

\* C11: the payload of a DragEntered, DragMoved or DragDropped event is
\* DropData::None exactly when the native event has no data transfer, no file
\* list or an empty file list; otherwise it is DropData::Files with the files
\* of the native list, in list order.
C11_DropDataFollowsFileList ==
    cur.op = "native" =>
        \A i \in DOMAIN cur.invocations :
            LET inv == cur.invocations[i]
            IN  inv.closure \in PayloadListeners =>
                    /\ Len(inv.sent) = 1
                    /\ inv.sent[1].event.data.kind \in {"None", "Files"}
                    /\ inv.sent[1].event.data.kind = "None" <=> ~HasFiles(cur.native)
                    /\ HasFiles(cur.native) => inv.sent[1].event.data = [kind |-> "Files", files |-> cur.native.files.items]
                    /\ ~HasFiles(cur.native) => inv.sent[1].event.data = [kind |-> "None", files |-> <<>>]
C11_Witness ==
    /\ cur.op = "native" /\ cur.native.name = "drag" /\ Len(cur.invocations) = 1
    /\ cur.native.files.items = <<"f1", "f2">>
    /\ cur.invocations[1].sent[1].event.kind = "DragMoved"
    /\ cur.invocations[1].sent[1].event.data = [kind |-> "Files", files |-> <<"f1", "f2">>]

\* C12: the MouseWheel event of a native wheel event with deltas (dx, dy)
\* carries PixelDelta(dx, dy) when the native delta mode is DOM_DELTA_PIXEL
\* and LineDelta(dx, dy) for every other delta mode (line, page).
C12_ScrollDeltaFollowsDeltaMode ==
    cur.op = "native" =>
        \A i \in DOMAIN cur.invocations :
            LET inv == cur.invocations[i]
            IN  inv.closure = "on_wheel" =>
                    /\ Len(Translated(inv)) = 1
                    /\ Translated(inv)[1].event.kind = "MouseWheel"
                    /\ Translated(inv)[1].event.delta.kind = (IF cur.native.deltaMode = 0 THEN "PixelDelta" ELSE "LineDelta")
                    /\ Translated(inv)[1].event.delta.x = cur.native.deltaX
                    /\ Translated(inv)[1].event.delta.y = cur.native.deltaY
C12_Witness ==
    /\ cur.op = "native" /\ cur.native.name = "wheel" /\ cur.native.deltaMode = 2 /\ Len(cur.invocations) = 1
    /\ cur.invocations[1].sent[2].event.delta = [kind |-> "LineDelta", x |-> -2, y |-> 1]

\* C13: pointer-down and pointer-up translate the native button code with
\* one total function, 0 to Left, 1 to Middle, 2 to Right and every other
\* code to Left, and the event is delivered whatever the code.
C13_ButtonCodeTotal ==
    cur.op = "native" =>
        \A i \in DOMAIN cur.invocations :
            LET inv == cur.invocations[i]
            IN  inv.closure \in {"on_pointerdown", "on_pointerup"} =>
                    /\ Len(Translated(inv)) = 1
                    /\ Translated(inv)[1].event.kind = (IF inv.closure = "on_pointerdown" THEN "MouseButtonDown" ELSE "MouseButtonUp")
                    /\ cur.native.button = 0 => Translated(inv)[1].event.button = "Left"
                    /\ cur.native.button = 1 => Translated(inv)[1].event.button = "Middle"
                    /\ cur.native.button = 2 => Translated(inv)[1].event.button = "Right"
                    /\ cur.native.button \notin {0, 1, 2} => Translated(inv)[1].event.button = "Left"
C13_Witness ==
    /\ cur.op = "native" /\ cur.native.name = "pointerdown" /\ cur.native.button = 4 /\ Len(cur.invocations) = 1
    /\ Len(cur.invocations[1].sent) = 2
    /\ cur.invocations[1].sent[2].event.kind = "MouseButtonDown" /\ cur.invocations[1].sent[2].event.button = "Left"

\* The Code of a key: that of its name when the name is enumerated,
\* Unidentified otherwise.
CodeOf(key) == IF key.text \in EnumeratedKeys THEN key.text ELSE "Unidentified"
\* A key listener delivered the KeyDown / KeyUp of its native event, with the
\* code of the key and the key's text.
KeyEventWithCode(inv, ev) ==
    /\ Len(Translated(inv)) = 1
    /\ Translated(inv)[1].event.kind = (IF inv.closure = "on_keydown" THEN "KeyDown" ELSE "KeyUp")
    /\ Translated(inv)[1].event.key_code = CodeOf(ev.key)
    /\ Translated(inv)[1].event.text = ev.key.text

\* C14 as stated: every native key-down / key-up yields a KeyDown / KeyUp,
\* with the matching code for an enumerated key name and Unidentified for any
\* other key; no key event is dropped by the translation.
C14_KeyTranslationTotal ==
    cur.op = "native" =>
        \A i \in DOMAIN cur.invocations :
            cur.invocations[i].closure \in KeyListeners => KeyEventWithCode(cur.invocations[i], cur.native)

\* C14 as amended: the same for the enumerated names and for any other key
\* that is one byte long or not ASCII; a key outside the enumerated names
\* that is ASCII and not one byte long (Shift, Tab) yields no KeyDown / KeyUp.
C14_KeyTranslationUnlessRejectedKey ==
    cur.op = "native" =>
        \A i \in DOMAIN cur.invocations :
            LET inv == cur.invocations[i]
            IN  inv.closure \in KeyListeners =>
                    IF RejectedKey(cur.native.key) THEN Translated(inv) = <<>> /\ ~inv.prevent
                    ELSE KeyEventWithCode(inv, cur.native)
C14_Witness ==
    /\ cur.op = "native" /\ cur.native.name = "keyup" /\ cur.native.key.text = "Tab" /\ Len(cur.invocations) = 1
    /\ Translated(cur.invocations[1]) = <<>>

\* C15: resized(size) sets the canvas backing size to size multiplied by the
\* platform scale as it is at the call (not as it was at open), changes
\* nothing else of the window and sends no event to the callback.
C15_ResizedUsesCurrentScale ==
    [][(cur'.op = "resized" /\ cur' # cur) =>
            /\ canvasSize' = <<cur'.size[1] * osScale, cur'.size[2] * osScale>>
            /\ cur'.scale = osScale
            /\ cur'.sent = <<>>
            /\ UNCHANGED <<phase, strong, closures, listeners, removed, tornDown, rafPending, osScale, owner, nativeCount>>]_vars
C15_Witness ==
    /\ cur.op = "resized" /\ cur.size = <<400, 300>> /\ cur.scale = 2 /\ osScale = 2
    /\ cur.before = <<400, 300>> /\ canvasSize = <<800, 600>>

\* C16: a successful open leaves the canvas backing size at attributes.size
\* multiplied by attributes.scale and by the platform scale, and the canvas
\* has that size when the first Draw is sent to the callback.
C16_OpenSizesCanvasBeforeDraw ==
    (cur.op = "open" /\ cur.result = "Ok") =>
        /\ canvasSize = <<cur.args.attrs.size[1] * cur.args.attrs.scale * cur.scale, cur.args.attrs.size[2] * cur.args.attrs.scale * cur.scale>>
        /\ cur.canvasAtDraw = canvasSize
        /\ cur.sent = <<Call([kind |-> "Draw"], Discarded)>>
C16_Witness ==
    /\ cur.op = "open" /\ cur.result = "Ok" /\ cur.scale = 2 /\ cur.args.attrs = [size |-> <<200, 150>>, scale |-> 2]
    /\ cur.canvasAtDraw = <<800, 600>> /\ canvasSize = <<800, 600>> /\ Len(cur.sent) = 1

\* C17: open sends one Draw and requests one animation frame; every
\* animation frame of a live window sends exactly one Draw and then requests
\* exactly one frame, so that a live window always has exactly one frame
\* request pending and the next frame sends Draw again.
C17_RedrawPumpRearms ==
    /\ phase = "open" => (rafPending = 1 /\ closures = "some")
    /\ (cur.op = "open" /\ cur.result = "Ok") => cur.sent = <<Call([kind |-> "Draw"], Discarded)>>
    /\ (cur.op = "frame" /\ ~cur.afterDrop) =>
        /\ cur.sent = <<Call([kind |-> "Draw"], Discarded)>>
        /\ cur.trace = <<"send_event", "request_animation_frame">>
C17_Witness == cur.op = "frame" /\ ~cur.afterDrop /\ phase = "open" /\ rafPending = 1 /\ Len(cur.sent) = 1 /\ nativeCount = 2

\* The kinds of the events the callback received for one native event, over
\* all the listeners the browser called, in order.
RECURSIVE DeliveredKinds(_)
DeliveredKinds(invs) ==
    IF invs = <<>> THEN <<>>
    ELSE [j \in 1..Len(Head(invs).sent) |-> Head(invs).sent[j].event.kind] \o DeliveredKinds(Tail(invs))

\* The one Event a native drag event stands for.
DragKindOf(name) ==
    CASE name = "dragenter" -> "DragEntered"
      [] name = "dragover" -> "DragMoved"
      [] name = "dragleave" -> "DragExited"
      [] name = "drop" -> "DragDropped"

\* C18: each native drag event of a live window delivers exactly one Event,
\* that of its kind: dragenter DragEntered, dragover DragMoved, dragleave
\* DragExited and nothing else, drop DragDropped; and DragDropped is never
\* delivered for a native event that is not a drop.
C18_EachDragEventDeliversItsKind ==
    (cur.op = "native" /\ ~cur.afterDrop) =>
        /\ cur.native.name \in {"dragenter", "dragover", "dragleave", "drop"} =>
                DeliveredKinds(cur.invocations) = <<DragKindOf(cur.native.name)>>
        /\ cur.native.name # "drop" =>
                \A j \in DOMAIN DeliveredKinds(cur.invocations) : DeliveredKinds(cur.invocations)[j] # "DragDropped"

\* C19: run handles the result of each GetMessageW call as follows: on 0
\* (WM_QUIT) it returns at once and that message is neither translated nor
\* dispatched; on -1 it panics without dispatching; on any other result it
\* translates and dispatches exactly the message it got (wnd_proc runs when
\* the hidden window still exists), and then tests the running flag before
\* its next GetMessageW call.
C19_RunHandlesGetResult ==
    [][ /\ (mwPc = "get" /\ mwPc' = "done") => (curMsg' = Head(hiddenQueue) /\ curMsg'.msg = "WM_QUIT" /\ mainQueue' = mainQueue)
        /\ (mwPc = "get" /\ mwPc' = "panicked") => (mainQueue' = mainQueue /\ hiddenQueue' = hiddenQueue /\ curMsg' = curMsg)
        /\ (mwPc = "get" /\ mwPc' = "dispatch") => (curMsg' = Head(hiddenQueue) /\ curMsg'.msg # "WM_QUIT" /\ hiddenQueue' = Tail(hiddenQueue) /\ mainQueue' = mainQueue)
        /\ (mwPc = "get" /\ mwPc' # "get") => mwPc' \in {"done", "panicked", "dispatch"}
        /\ (mwPc = "dispatch" /\ mwPc' # "dispatch") => (mwPc' = "check" /\ curMsg' = curMsg /\ mainQueue' = IF hwnd = "alive" THEN mainQueue \o wnd_proc(curMsg).posted ELSE mainQueue)
        /\ (mwPc' = "get" /\ mwPc # "get") => (mwPc = "check" /\ running)
        /\ mwPc \in {"done", "panicked"} => mwPc' = mwPc ]_vars
C19_Witness == mwPc = "done" /\ running /\ curMsg.msg = "WM_QUIT" /\ Len(mainQueue) = 2 /\ hiddenQueue = <<>>

\* While the running flag is false run starts no GetMessageW call, a flag
\* test that reads false ends run, and the flag is never set again.
NoGetWhileFlagFalse ==
    /\ (~running /\ mwPc # "get") => mwPc' # "get"
    /\ (~running /\ mwPc = "check" /\ mwPc' # "check") => mwPc' = "done"
    /\ ~running => ~running'

\* run has been called and has not ended.
InRun == mwPc \in {"check", "get", "dispatch"}

\* C20 as stated: if every GetMessageW call eventually returns, then once the
\* running flag is cleared (it stays cleared) a run that was called
\* eventually returns; while the flag is false run starts no GetMessageW
\* call, so a run called with the flag already false returns without any.
C20_RunEventuallyReturns ==
    /\ ([]<>(mwPc # "get")) => ((cleared /\ InRun) ~> (mwPc = "done"))
    /\ [][NoGetWhileFlagFalse]_vars

\* C20 as amended: under the same conditions run eventually ends, by
\* returning or, when the GetMessageW call it was blocked in reports the
\* error, by panicking; it returns whenever no GetMessageW call fails.
C20_CancellationEventuallyEffective ==
    /\ ([]<>(mwPc # "get")) => ((cleared /\ InRun) ~> (mwPc \in {"done", "panicked"}))
    /\ (([]<>(mwPc # "get")) /\ [](mwPc # "panicked")) => ((cleared /\ InRun) ~> (mwPc = "done"))
    /\ [][NoGetWhileFlagFalse]_vars
C20_Witness == cleared /\ mwPc = "done" /\ getsAfterClear = 0 /\ dispatchedAfterClear = 0 /\ curMsg = NoMsg /\ hiddenQueue # <<>>

\* The messages wnd_proc takes for itself, and the user message each is
\* posted as.
InterceptedMessages == {"WM_CHAR", "WM_KEYDOWN", "WM_KEYUP"}
UserMessageOf(msg) ==
    CASE msg = "WM_CHAR" -> "WM_USER_CHAR"
      [] msg = "WM_KEYDOWN" -> "WM_USER_KEY_DOWN"
      [] msg = "WM_KEYUP" -> "WM_USER_KEY_UP"

\* C21: for every message the hidden window's procedure receives: a WM_CHAR,
\* WM_KEYDOWN or WM_KEYUP appends exactly one user message (WM_USER_CHAR,
\* WM_USER_KEY_DOWN, WM_USER_KEY_UP) to the main window's queue, the
\* procedure returns 0 and DefWindowProcW is not called; any other message
\* posts nothing and is left to DefWindowProcW.  Nothing else touches the
\* main window's queue, so the user messages are in the order the key
\* messages were received.
C21_KeyMessagesRepostedInOrder ==
    [][ /\ (mwPc = "dispatch" /\ mwPc' = "check" /\ hwnd = "alive") =>
            /\ lastProc'.msg = curMsg
            /\ curMsg.msg \in InterceptedMessages =>
                    /\ Len(mainQueue') = Len(mainQueue) + 1
                    /\ SubSeq(mainQueue', 1, Len(mainQueue)) = mainQueue
                    /\ mainQueue'[Len(mainQueue')].msg = UserMessageOf(curMsg.msg)
                    /\ lastProc'.result = "0" /\ ~lastProc'.def
            /\ curMsg.msg \notin InterceptedMessages => (mainQueue' = mainQueue /\ lastProc'.def)
        /\ ~(mwPc = "dispatch" /\ mwPc' = "check" /\ hwnd = "alive") => (mainQueue' = mainQueue /\ lastProc' = lastProc) ]_vars
C21_Witness ==
    /\ Len(mainQueue) = 2 /\ mainQueue[1].msg = "WM_USER_KEY_UP" /\ mainQueue[2].msg = "WM_USER_CHAR"
    /\ lastProc.msg.msg = "WM_SYSKEYDOWN" /\ lastProc.def /\ lastProc.posted = <<>>

\* C22: the drop of a MessageWindow calls DestroyWindow first and
\* UnregisterClassW second, whatever DestroyWindow answered; a failed
\* DestroyWindow is ignored, a failed UnregisterClassW panics.
C22_DropDestroysThenUnregisters ==
    mwState \in {"dropped", "dropPanicked"} =>
        /\ Len(mwCalls) = 2
        /\ mwCalls[1].call = "DestroyWindow"
        /\ mwCalls[2].call = "UnregisterClassW"
        /\ mwState = "dropPanicked" <=> ~mwCalls[2].ok
        /\ mwState = "dropped" => (~windowClass /\ hwnd = "destroyed")
C22_Witness ==
    /\ mwState = "dropped" /\ Len(mwCalls) = 2 /\ ~mwCalls[1].ok /\ mwCalls[2].ok
    /\ hwnd = "destroyed" /\ ~windowClass /\ mwPc = "panicked"

\* C23: MessageWindow::new never panics on a native failure, it returns
\* Err; and whenever it does not return Ok, the window class of this call is
\* not registered and no hidden window exists.
C23_NewFailureIsErrAndLeavesNothing ==
    /\ mwState # "newPanicked"
    /\ mwState \in {"failed", "newPanicked"} => (~windowClass /\ hwnd = "none")

\* C24: the event callback is never re-entered by the backend: no interface
\* method (os_scale, resized, set_cursor, set_input_focus, warp_mouse,
\* poll_events) sends an event, so that at most one callback invocation is
\* active even when the callback calls them; warp_mouse and poll_events
\* change nothing of the page, and poll_events returns Ok.
C24_CallbackNeverReentered ==
    /\ [](/\ cur.op = "call" => (cur.sent = <<>> /\ cur.maxActive = 0)
          /\ cur.op = "drawCallback" => (cur.sent = <<Call([kind |-> "Draw"], Discarded)>> /\ cur.maxActive = 1)
          /\ (cur.op \in {"call", "drawCallback"} /\ cur.call.name = "poll_events") => cur.result = <<"Ok">>)
    /\ [][(cur' # cur /\ cur'.op \in {"call", "drawCallback"} /\ cur'.call.name \in {"warp_mouse", "poll_events"}) =>
            UNCHANGED <<phase, strong, closures, listeners, removed, tornDown, canvasSize, osScale, owner, nativeCount, cursor, focused>>]_vars
C24_Witness ==
    /\ cur.op = "drawCallback" /\ cur.call.name = "resized" /\ cur.maxActive = 1 /\ Len(cur.sent) = 1
    /\ canvasSize = <<800, 600>> /\ cursor = "pointer" /\ focused

\* C25: clipboard_text(DefaultClipboard) returns the text of the most recent
\* set_clipboard_text on DefaultClipboard, or None when there was none;
\* set_clipboard_text on another clipboard leaves the stored text as it was,
\* clipboard_text on another clipboard returns None, and reading never
\* changes the stored text.
C25_ClipboardKeepsLastDefaultText ==
    /\ clipboard = lastDefaultSet
    /\ clipCur.op = "get" =>
        /\ clipCur.which = "DefaultClipboard" => clipCur.result = lastDefaultSet
        /\ clipCur.which # "DefaultClipboard" => clipCur.result = [some |-> FALSE, text |-> ""]
        /\ clipboard = clipCur.before
    /\ (clipCur.op = "set" /\ clipCur.which # "DefaultClipboard") => clipboard = clipCur.before
    /\ (clipCur.op = "set" /\ clipCur.which = "DefaultClipboard") => clipboard = [some |-> TRUE, text |-> clipCur.text]
C25_Witness ==
    /\ clipOps = 4 /\ clipCur.op = "get" /\ clipCur.which = "DefaultClipboard"
    /\ clipCur.result = [some |-> TRUE, text |-> ""] /\ clipboard = clipCur.result

====
